---------------------------- MODULE Spec2Model ----------------------------
(***************************************************************************)
(* State-machine model of the EcoDuino API server (src/server.js): the     *)
(* Express handlers for greenhouse provisioning, telemetry ingest, the     *)
(* control-state fetch and the actuator update, on top of a MySQL pool.    *)
(*                                                                         *)
(* Every `await` on the storage layer ends a step of a handler, so the     *)
(* handlers of concurrent requests interleave exactly where the Node event *)
(* loop lets them interleave.  For the routes that send a single statement *)
(* the step in which the server runs the statement is kept apart from the  *)
(* step in which the handler resumes and answers.  The storage layer is    *)
(* modelled as committed tables plus, per provisioning connection, the     *)
(* rows written inside its open transaction.                               *)
(***************************************************************************)
EXTENDS Integers, Sequences, FiniteSets, TLC

(***************************************************************************)
(* Bounds of the model.                                                    *)
(***************************************************************************)
NumCrear == 2        \* concurrent POST /api/invernaderos/crear requests
MaxInvId == 2        \* AUTO_INCREMENT ids handed out for invernadero
MaxTime == 1         \* ticks of the database clock NOW() after the start
MaxRegistros == 2    \* rows of registro_sensores
NumPut == 2          \* concurrent PUT /api/control/actualizar requests

CrearProcs == 1..NumCrear
PutProcs == 1..NumPut

(***************************************************************************)
(* Request inputs.  0 and "" are the falsy values the validations reject   *)
(* (a missing field is undefined, falsy as well).  A sensor field of the    *)
(* JSON body is a number, null, or left out: a value is a record that      *)
(* carries its type, so that no number stands for a field left out.        *)
(***************************************************************************)
UserIds == {7, 8}
Tokens == {"ABC", "XYZ"}
CrearBodies(users) ==
    [userId : users, nombreUbicacion : {"Greenhouse A"}, tokenDispositivo : Tokens]
    \cup {[userId |-> 0, nombreUbicacion |-> "Greenhouse A", tokenDispositivo |-> "ABC"],
          [userId |-> 7, nombreUbicacion |-> "", tokenDispositivo |-> "ABC"],
          [userId |-> 7, nombreUbicacion |-> "Greenhouse A", tokenDispositivo |-> ""]}
Undefined == [tipo |-> "undefined", n |-> 0]
Null == [tipo |-> "null", n |-> 0]
Num(n) == [tipo |-> "number", n |-> n]
\* Bodies with the token of a device and three numbers, the first among temps.
IngestCompletos(temps) ==
    [token : Tokens, tempAmbiente : {Num(t) : t \in temps}, humAmbiente : {Num(60)},
     humedadSuelo : {Num(40)}]
\* The same, and one body for each way of being incomplete; -1 and null are
\* values like any other.
IngestBodies(temps) ==
    IngestCompletos(temps)
    \cup {[token |-> "", tempAmbiente |-> Num(24), humAmbiente |-> Num(60), humedadSuelo |-> Num(40)],
          [token |-> "ABC", tempAmbiente |-> Undefined, humAmbiente |-> Num(60), humedadSuelo |-> Num(40)],
          [token |-> "ABC", tempAmbiente |-> Num(24), humAmbiente |-> Undefined, humedadSuelo |-> Num(40)],
          [token |-> "ABC", tempAmbiente |-> Num(24), humAmbiente |-> Num(60), humedadSuelo |-> Undefined],
          [token |-> "ABC", tempAmbiente |-> Num(-1), humAmbiente |-> Null, humedadSuelo |-> Num(-1)]}
InvIds == 1..MaxInvId
Actuadores == {"", "luces", "riego", "ventilacion", "bomba", "constructor", "toString",
               "valueOf", "__proto__"}
Estados == {"undefined", "true", "false"}
\* The requests sent to the actuator update: every valid combination for the
\* actuators given, and one request for each way of being invalid.
ActualizarRequests(actuadores) ==
    [id : InvIds, actuador : actuadores, estado : {"true", "false"}]
    \cup [id : {1}, actuador : Actuadores \ {"luces", "riego", "ventilacion"}, estado : {"true"}]
    \cup {[id |-> 1, actuador |-> "luces", estado |-> "undefined"]}
\* One valid update for every device, and one request for each way of being
\* turned down or rejected.
ActualizarBasicos ==
    [id : InvIds, actuador : {"luces"}, estado : {"true"}]
    \cup {[id |-> 1, actuador |-> "bomba", estado |-> "true"],
          [id |-> 1, actuador |-> "constructor", estado |-> "true"],
          [id |-> 1, actuador |-> "luces", estado |-> "undefined"]}

\* req.query.limit of the history route, a string given by its characters;
\* <<>> is the parameter left out (or empty).
Limites == {<<>>, <<"1">>, <<"2">>, <<"5", "0">>, <<"0">>, <<"-", "1">>, <<"a">>, <<"1", "x">>}

(***************************************************************************)
(* HTTP status codes the handlers answer with; NoResponse: nothing sent.   *)
(***************************************************************************)
NoResponse == 0
Ok == 200
Created == 201
BadRequest == 400
Unauthorized == 401
NotFound == 404
Conflict == 409
InternalError == 500

VARIABLES
    now,                  \* the database clock, read by NOW()
    nextInvId,            \* AUTO_INCREMENT counter of invernadero
    invernadero,          \* committed rows of table invernadero
    estado_control,       \* committed rows of table estado_control
    usuario_invernadero,  \* committed rows of table usuario_invernadero
    registro_sensores,    \* committed rows of registro_sensores, in insertion order
    cpc,                  \* crear: position of each request's handler
    creq,                 \* crear: req.body
    connection,           \* crear: the handler holds a pool connection
    txInv, txCtl, txOwn,  \* crear: rows written inside the open transaction
    newInvId,             \* crear: invResult.insertId (0: not assigned)
    cres,                 \* crear: status of the response sent
    fault,                \* crear: a storage call failed (connection lost, timeout)
    dupEntry,             \* crear: the INSERT was rejected with a duplicate-key error
    dupAtStart,           \* crear: the token was committed when the request arrived
    failedIds,            \* ids allocated by provisioning attempts that failed
    ipc,                  \* ingresar: position of the handler
    ireq,                 \* ingresar: req.body
    iid,                  \* ingresar: id_invernadero (0: not assigned)
    ires,                 \* ingresar: status of the response sent
    iStored,              \* ingresar: the INSERT of this request was executed
    epc,                  \* estado: position of the handler
    etoken,               \* estado: req.params.token
    eid,                  \* estado: id_invernadero (0: not assigned)
    eres,                 \* estado: status of the response sent
    ebody,                \* estado: the flags sent with a 200
    apc,                  \* actualizar: position of each request's handler
    areq,                 \* actualizar: req.params and req.body
    ares,                 \* actualizar: status of the response sent
    asql,                 \* actualizar: the column text of the statement sent ("": none sent)
    pbase,                \* estado_control when the current round of concurrent updates began
    upc,                  \* ultima: position of the handler
    uid,                  \* ultima: req.params.id_inv
    ures,                 \* ultima: status of the response sent
    ubody,                \* ultima: registro, the rows the query gave (a 200 sends the first)
    hpc,                  \* historico: position of the handler
    hid,                  \* historico: req.params.id_inv
    hlimit,               \* historico: req.query.limit
    hres,                 \* historico: status of the response sent
    hbody,                \* historico: registros, the rows the query gave (a 200 sends them)
    hsent,                \* historico: the query was sent to the storage layer
    lpc,                  \* listado: position of the handler
    luser,                \* listado: req.params.userId
    lres,                 \* listado: status of the response sent
    lbody                 \* listado: invernaderos, the rows the query gave (a 200 sends them)

dbVars == <<now, nextInvId, invernadero, estado_control, usuario_invernadero, registro_sensores>>
tables == <<invernadero, estado_control, usuario_invernadero, registro_sensores>>
crearVars == <<cpc, creq, connection, txInv, txCtl, txOwn, newInvId, cres,
               fault, dupEntry, dupAtStart, failedIds>>
ingestVars == <<ipc, ireq, iid, ires, iStored>>
estadoVars == <<epc, etoken, eid, eres, ebody>>
actualizarVars == <<apc, areq, ares, asql, pbase>>
ultimaVars == <<upc, uid, ures, ubody>>
historicoVars == <<hpc, hid, hlimit, hres, hbody, hsent>>
listadoVars == <<lpc, luser, lres, lbody>>
consultaVars == <<ultimaVars, historicoVars, listadoVars>>
vars == <<dbVars, crearVars, ingestVars, estadoVars, actualizarVars, consultaVars>>

NoReq == [userId |-> 0, nombreUbicacion |-> "", tokenDispositivo |-> ""]
NoIngest == [token |-> "", tempAmbiente |-> Undefined, humAmbiente |-> Undefined,
             humedadSuelo |-> Undefined]
NoFlags == [luces |-> FALSE, riego |-> FALSE, ventilacion |-> FALSE]
NoPut == [id |-> 0, actuador |-> "", estado |-> "undefined"]

(***************************************************************************)
(* Pure helpers.                                                           *)
(***************************************************************************)
\* line 115: !userId || !nombreUbicacion || !tokenDispositivo
DatosIncompletos(body) ==
    body.userId = 0 \/ body.nombreUbicacion = "" \/ body.tokenDispositivo = ""

\* SELECT id_invernadero FROM invernadero WHERE token_dispositivo = ?
\* (faulty variant: the WHERE clause is missing)
SelectByTokenSinWhere(rows, token) == {r.id_invernadero : r \in rows}
SelectByToken(rows, token) == {r.id_invernadero : r \in {x \in rows : x.token_dispositivo = token}}

\* Some committed invernadero row carries the token.
TokenConocido(token) == \E r \in invernadero : r.token_dispositivo = token

\* line 128: existingInv.length > 0
\* (faulty variant: existingInv.length > 1)
YaRegistradoMasDeUno(existingInv) == Cardinality(existingInv) > 1
YaRegistrado(existingInv) == Cardinality(existingInv) > 0

\* INSERT INTO invernadero (nombre_ubicacion, token_dispositivo, ultima_conexion) VALUES (?, ?, NOW())
FilaInvernadero(id, nombre, token, t) ==
    [id_invernadero |-> id, nombre_ubicacion |-> nombre,
     token_dispositivo |-> token, ultima_conexion |-> t]

\* INSERT INTO estado_control (...) VALUES (?, 0, 0, 0); ultima_actualizacion
\* is not listed and takes the column default, written 0 here.
\* (faulty variant: VALUES (?, 1, 0, 0))
FilaEstadoControlLucesOn(id) ==
    [id_invernadero |-> id, luces_estado |-> 1, riego_estado |-> 0,
     ventilacion_estado |-> 0, ultima_actualizacion |-> 0]
FilaEstadoControl(id) ==
    [id_invernadero |-> id, luces_estado |-> 0, riego_estado |-> 0,
     ventilacion_estado |-> 0, ultima_actualizacion |-> 0]

\* INSERT INTO usuario_invernadero (id_usuario, id_invernadero, rol) VALUES (?, ?, 'admin')
FilaUsuarioInvernadero(user, id) ==
    [id_usuario |-> user, id_invernadero |-> id, rol |-> "admin"]

(***************************************************************************)
(* Storage layer.  Rows a connection writes between beginTransaction and   *)
(* commit are kept apart from the committed table: TxWrite gives the pair  *)
(* <<committed rows, rows of the open transaction>> after an insert.       *)
(***************************************************************************)
\* (faulty variant: the insert goes through pool.query and is autocommitted)
TxWriteAutocommit(committed, pending, row) == <<committed \cup {row}, pending>>
TxWrite(committed, pending, row) == <<committed, pending \cup {row}>>

\* connection.commit(): the pending rows become committed rows.
CommitRows(committed, pending) == committed \cup pending

\* The uniqueness constraint on invernadero.token_dispositivo: an insert of a
\* token a committed row carries is rejected with a duplicate-key error.
\* (variant: the column carries no uniqueness constraint)
SinRestriccion(token) == FALSE
TokenDuplicado(token) == \E r \in invernadero : r.token_dispositivo = token

\* The same constraint makes an insert wait while another open transaction
\* holds an uncommitted row with that token.
TokenBloqueado(p, token) ==
    \E q \in CrearProcs \ {p} : \E r \in txInv[q] : r.token_dispositivo = token

\* line 162: if (connection) connection.release()
\* (faulty variant: the finally block is missing)
ReleaseOmitido(held, p) == held
Release(held, p) == [held EXCEPT ![p] = FALSE]

Init ==
    /\ now = 1
    /\ nextInvId = 1
    /\ invernadero = {}
    /\ estado_control = {}
    /\ usuario_invernadero = {}
    /\ registro_sensores = <<>>
    /\ cpc = [p \in CrearProcs |-> "idle"]
    /\ creq = [p \in CrearProcs |-> NoReq]
    /\ connection = [p \in CrearProcs |-> FALSE]
    /\ txInv = [p \in CrearProcs |-> {}]
    /\ txCtl = [p \in CrearProcs |-> {}]
    /\ txOwn = [p \in CrearProcs |-> {}]
    /\ newInvId = [p \in CrearProcs |-> 0]
    /\ cres = [p \in CrearProcs |-> NoResponse]
    /\ fault = [p \in CrearProcs |-> FALSE]
    /\ dupEntry = [p \in CrearProcs |-> FALSE]
    /\ dupAtStart = [p \in CrearProcs |-> FALSE]
    /\ failedIds = {}
    /\ ipc = "idle"
    /\ ireq = NoIngest
    /\ iid = 0
    /\ ires = NoResponse
    /\ iStored = FALSE
    /\ epc = "idle"
    /\ etoken = ""
    /\ eid = 0
    /\ eres = NoResponse
    /\ ebody = NoFlags
    /\ apc = [p \in PutProcs |-> "idle"]
    /\ areq = [p \in PutProcs |-> NoPut]
    /\ ares = [p \in PutProcs |-> NoResponse]
    /\ asql = [p \in PutProcs |-> ""]
    /\ pbase = {}
    /\ upc = "idle"
    /\ uid = 0
    /\ ures = NoResponse
    /\ ubody = <<>>
    /\ hpc = "idle"
    /\ hid = 0
    /\ hlimit = <<>>
    /\ hres = NoResponse
    /\ hbody = <<>>
    /\ hsent = FALSE
    /\ lpc = "idle"
    /\ luser = 0
    /\ lres = NoResponse
    /\ lbody = <<>>

(***************************************************************************)
(* The database clock.                                                     *)
(***************************************************************************)
Tick ==
    /\ now <= MaxTime
    /\ now' = now + 1
    /\ UNCHANGED <<nextInvId, tables, crearVars, ingestVars, estadoVars, actualizarVars, consultaVars>>

(***************************************************************************)
(* POST /api/invernaderos/crear                                            *)
(***************************************************************************)
\* lines 112-117: a request arrives (on a slot whose previous handler has
\* finished); incomplete bodies are answered 400.
CrearStart(p, body) ==
    /\ cpc[p] \in {"idle", "done"}
    /\ creq' = [creq EXCEPT ![p] = body]
    /\ newInvId' = [newInvId EXCEPT ![p] = 0]
    /\ fault' = [fault EXCEPT ![p] = FALSE]
    /\ dupEntry' = [dupEntry EXCEPT ![p] = FALSE]
    /\ IF DatosIncompletos(body)
         THEN /\ cres' = [cres EXCEPT ![p] = BadRequest]
              /\ cpc' = [cpc EXCEPT ![p] = "done"]
              /\ dupAtStart' = [dupAtStart EXCEPT ![p] = FALSE]
         ELSE /\ cres' = [cres EXCEPT ![p] = NoResponse]
              /\ cpc' = [cpc EXCEPT ![p] = "getConnection"]
              /\ dupAtStart' = [dupAtStart EXCEPT ![p] = TokenConocido(body.tokenDispositivo)]
    /\ UNCHANGED <<ingestVars, estadoVars, actualizarVars, consultaVars>>
    /\ UNCHANGED <<dbVars, connection, txInv, txCtl, txOwn, failedIds>>

\* line 120
GetConnection(p) ==
    /\ cpc[p] = "getConnection"
    /\ connection' = [connection EXCEPT ![p] = TRUE]
    /\ cpc' = [cpc EXCEPT ![p] = "beginTransaction"]
    /\ UNCHANGED <<ingestVars, estadoVars, actualizarVars, consultaVars>>
    /\ UNCHANGED <<dbVars, creq, txInv, txCtl, txOwn, newInvId, cres, fault,
                   dupEntry, dupAtStart, failedIds>>

\* line 121
BeginTransaction(p) ==
    /\ cpc[p] = "beginTransaction"
    /\ cpc' = [cpc EXCEPT ![p] = "select"]
    /\ UNCHANGED <<ingestVars, estadoVars, actualizarVars, consultaVars>>
    /\ UNCHANGED <<dbVars, creq, connection, txInv, txCtl, txOwn, newInvId, cres, fault,
                   dupEntry, dupAtStart, failedIds>>

\* lines 123-128: the application-level lookup, a plain (non-locking) read of
\* the committed rows.
SelectExisting(p) ==
    /\ cpc[p] = "select"
    /\ cpc' = [cpc EXCEPT ![p] =
                 IF YaRegistrado(SelectByToken(invernadero, creq[p].tokenDispositivo))
                   THEN "rollback409" ELSE "insertInvernadero"]
    /\ UNCHANGED <<ingestVars, estadoVars, actualizarVars, consultaVars>>
    /\ UNCHANGED <<dbVars, creq, connection, txInv, txCtl, txOwn, newInvId, cres,
                   fault, dupEntry, dupAtStart, failedIds>>

\* lines 129-130 and 162: rollback, answer 409, release the connection.
Rollback409(p) ==
    /\ cpc[p] = "rollback409"
    /\ txInv' = [txInv EXCEPT ![p] = {}]
    /\ txCtl' = [txCtl EXCEPT ![p] = {}]
    /\ txOwn' = [txOwn EXCEPT ![p] = {}]
    /\ cres' = [cres EXCEPT ![p] = Conflict]
    /\ connection' = Release(connection, p)
    /\ cpc' = [cpc EXCEPT ![p] = "done"]
    /\ UNCHANGED <<ingestVars, estadoVars, actualizarVars, consultaVars>>
    /\ UNCHANGED <<dbVars, creq, newInvId, fault, dupEntry, dupAtStart, failedIds>>

\* lines 133-137: the INSERT waits while another open transaction holds an
\* uncommitted row with the token.  Then either a committed row carries the
\* token and the query throws the duplicate-key error, or the insert takes the
\* next AUTO_INCREMENT id (never given back, also when the transaction rolls
\* back) and writes the row inside the transaction.
InsertInvernadero(p) ==
    /\ cpc[p] = "insertInvernadero"
    /\ ~TokenBloqueado(p, creq[p].tokenDispositivo)
    /\ IF TokenDuplicado(creq[p].tokenDispositivo)
         THEN /\ dupEntry' = [dupEntry EXCEPT ![p] = TRUE]
              /\ cpc' = [cpc EXCEPT ![p] = "catch"]
              /\ UNCHANGED <<nextInvId, invernadero, txInv, newInvId>>
         ELSE /\ nextInvId <= MaxInvId
              /\ LET w == TxWrite(invernadero, txInv[p],
                                  FilaInvernadero(nextInvId, creq[p].nombreUbicacion,
                                                  creq[p].tokenDispositivo, now))
                 IN /\ invernadero' = w[1]
                    /\ txInv' = [txInv EXCEPT ![p] = w[2]]
              /\ newInvId' = [newInvId EXCEPT ![p] = nextInvId]
              /\ nextInvId' = nextInvId + 1
              /\ cpc' = [cpc EXCEPT ![p] = "insertEstado"]
              /\ UNCHANGED dupEntry
    /\ UNCHANGED <<ingestVars, estadoVars, actualizarVars, consultaVars>>
    /\ UNCHANGED <<now, estado_control, usuario_invernadero, registro_sensores, creq,
                   connection, txCtl, txOwn, cres, fault, dupAtStart, failedIds>>

\* lines 139-142
InsertEstado(p) ==
    /\ cpc[p] = "insertEstado"
    /\ LET w == TxWrite(estado_control, txCtl[p], FilaEstadoControl(newInvId[p]))
       IN /\ estado_control' = w[1]
          /\ txCtl' = [txCtl EXCEPT ![p] = w[2]]
    /\ cpc' = [cpc EXCEPT ![p] = "insertPropiedad"]
    /\ UNCHANGED <<ingestVars, estadoVars, actualizarVars, consultaVars>>
    /\ UNCHANGED <<now, nextInvId, invernadero, usuario_invernadero, registro_sensores,
                   creq, connection, txInv, txOwn, newInvId, cres, fault, dupEntry,
                   dupAtStart, failedIds>>

\* lines 144-147
InsertPropiedad(p) ==
    /\ cpc[p] = "insertPropiedad"
    /\ LET w == TxWrite(usuario_invernadero, txOwn[p],
                        FilaUsuarioInvernadero(creq[p].userId, newInvId[p]))
       IN /\ usuario_invernadero' = w[1]
          /\ txOwn' = [txOwn EXCEPT ![p] = w[2]]
    /\ cpc' = [cpc EXCEPT ![p] = "commit"]
    /\ UNCHANGED <<ingestVars, estadoVars, actualizarVars, consultaVars>>
    /\ UNCHANGED <<now, nextInvId, invernadero, estado_control, registro_sensores,
                   creq, connection, txInv, txCtl, newInvId, cres, fault, dupEntry,
                   dupAtStart, failedIds>>

\* line 149: the three pending rows become visible together.
Commit(p) ==
    /\ cpc[p] = "commit"
    /\ invernadero' = CommitRows(invernadero, txInv[p])
    /\ estado_control' = CommitRows(estado_control, txCtl[p])
    /\ usuario_invernadero' = CommitRows(usuario_invernadero, txOwn[p])
    /\ txInv' = [txInv EXCEPT ![p] = {}]
    /\ txCtl' = [txCtl EXCEPT ![p] = {}]
    /\ txOwn' = [txOwn EXCEPT ![p] = {}]
    /\ cpc' = [cpc EXCEPT ![p] = "respond201"]
    /\ UNCHANGED <<ingestVars, estadoVars, actualizarVars, consultaVars>>
    /\ UNCHANGED <<now, nextInvId, registro_sensores, creq, connection, newInvId, cres,
                   fault, dupEntry, dupAtStart, failedIds>>

\* lines 151-156 and 162: answer 201, release the connection.
Respond201(p) ==
    /\ cpc[p] = "respond201"
    /\ cres' = [cres EXCEPT ![p] = Created]
    /\ connection' = Release(connection, p)
    /\ cpc' = [cpc EXCEPT ![p] = "done"]
    /\ UNCHANGED <<ingestVars, estadoVars, actualizarVars, consultaVars>>
    /\ UNCHANGED <<dbVars, creq, txInv, txCtl, txOwn, newInvId, fault, dupEntry,
                   dupAtStart, failedIds>>

\* Any awaited storage call of lines 120-149 may reject (connection lost,
\* timeout, lock wait timeout): control passes to the catch block.  A commit
\* that rejects has not made the rows visible.
StorageSteps == {"getConnection", "beginTransaction", "select", "rollback409",
                 "insertInvernadero", "insertEstado", "insertPropiedad", "commit"}

StorageThrows(p) ==
    /\ cpc[p] \in StorageSteps
    /\ fault' = [fault EXCEPT ![p] = TRUE]
    /\ cpc' = [cpc EXCEPT ![p] = "catch"]
    /\ UNCHANGED <<ingestVars, estadoVars, actualizarVars, consultaVars>>
    /\ UNCHANGED <<dbVars, creq, connection, txInv, txCtl, txOwn, newInvId, cres,
                   dupEntry, dupAtStart, failedIds>>

\* The ids a failed attempt had allocated.
IdsOf(p) == IF newInvId[p] = 0 THEN {} ELSE {newInvId[p]}

\* lines 157-163: rollback when a connection was obtained, answer 500, release.
Catch(p) ==
    /\ cpc[p] = "catch"
    /\ txInv' = [txInv EXCEPT ![p] = {}]
    /\ txCtl' = [txCtl EXCEPT ![p] = {}]
    /\ txOwn' = [txOwn EXCEPT ![p] = {}]
    /\ cres' = [cres EXCEPT ![p] = InternalError]
    /\ connection' = Release(connection, p)
    /\ failedIds' = failedIds \cup IdsOf(p)
    /\ cpc' = [cpc EXCEPT ![p] = "done"]
    /\ UNCHANGED <<ingestVars, estadoVars, actualizarVars, consultaVars>>
    /\ UNCHANGED <<dbVars, creq, newInvId, fault, dupEntry, dupAtStart>>

\* line 158 rejecting: the rollback call itself throws out of the catch block
\* (the connection is gone, the server discards its open transaction); line
\* 160 is skipped, the finally block still releases.
CatchRollbackThrows(p) ==
    /\ cpc[p] = "catch"
    /\ connection[p]
    /\ txInv' = [txInv EXCEPT ![p] = {}]
    /\ txCtl' = [txCtl EXCEPT ![p] = {}]
    /\ txOwn' = [txOwn EXCEPT ![p] = {}]
    /\ connection' = Release(connection, p)
    /\ failedIds' = failedIds \cup IdsOf(p)
    /\ fault' = [fault EXCEPT ![p] = TRUE]
    /\ cpc' = [cpc EXCEPT ![p] = "done"]
    /\ UNCHANGED <<ingestVars, estadoVars, actualizarVars, consultaVars>>
    /\ UNCHANGED <<dbVars, creq, newInvId, cres, dupEntry, dupAtStart>>

Crear(p, bodies) ==
    \/ \E body \in bodies : CrearStart(p, body)
    \/ GetConnection(p)
    \/ BeginTransaction(p)
    \/ SelectExisting(p)
    \/ Rollback409(p)
    \/ InsertInvernadero(p)
    \/ InsertEstado(p)
    \/ InsertPropiedad(p)
    \/ Commit(p)
    \/ Respond201(p)
    \/ StorageThrows(p)
    \/ Catch(p)
    \/ CatchRollbackThrows(p)


(***************************************************************************)
(* POST /api/data/ingresar                                                 *)
(***************************************************************************)
\* line 208: !token || humedadSuelo === undefined || tempAmbiente === undefined
\* || humAmbiente === undefined
IngestIncompleto(body) ==
    \/ body.token = ""
    \/ body.humedadSuelo = Undefined
    \/ body.tempAmbiente = Undefined
    \/ body.humAmbiente = Undefined

\* lines 233-235: Number(x) of a JSON number is the number, Number(null) is 0.
\* (Number(undefined) is never computed: line 208 turns the body down.)
Number(v) ==
    CASE v.tipo = "number" -> v.n
      [] v.tipo = "null" -> 0

\* lines 224-236: the row the INSERT writes, fecha_hora = NOW().
FilaRegistro(id, t, body) ==
    [id_invernadero |-> id, fecha_hora |-> t, temp_ambiente |-> Number(body.tempAmbiente),
     humedad_ambiente |-> Number(body.humAmbiente),
     humedad_suelo |-> Number(body.humedadSuelo)]

\* line 238: UPDATE invernadero SET ultima_conexion = NOW() WHERE id_invernadero = ?
TouchInvernadero(rows, id, t) ==
    {IF r.id_invernadero = id THEN [r EXCEPT !.ultima_conexion = t] ELSE r : r \in rows}

\* lines 206-210
IngestStart(body) ==
    /\ ipc \in {"idle", "done"}
    /\ ireq' = body
    /\ iid' = 0
    /\ iStored' = FALSE
    /\ IF IngestIncompleto(body)
         THEN ires' = BadRequest /\ ipc' = "done"
         ELSE ires' = NoResponse /\ ipc' = "lookup"
    /\ UNCHANGED <<dbVars, crearVars, estadoVars, actualizarVars, consultaVars>>

\* lines 213-222
IngestLookup ==
    /\ ipc = "lookup"
    /\ LET found == SelectByToken(invernadero, ireq.token)
       IN IF found = {}
            THEN ires' = Unauthorized /\ ipc' = "done" /\ UNCHANGED iid
            ELSE /\ \E id \in found : iid' = id
                 /\ ipc' = "insert"
                 /\ UNCHANGED ires
    /\ UNCHANGED <<dbVars, crearVars, ireq, iStored, estadoVars, actualizarVars, consultaVars>>

\* lines 224-236: an autocommitted INSERT on a pool connection.
IngestInsert ==
    /\ ipc = "insert"
    /\ Len(registro_sensores) < MaxRegistros
    /\ registro_sensores' = Append(registro_sensores, FilaRegistro(iid, now, ireq))
    /\ iStored' = TRUE
    /\ ipc' = "update"
    /\ UNCHANGED <<now, nextInvId, invernadero, estado_control, usuario_invernadero,
                   crearVars, ireq, iid, ires, estadoVars, actualizarVars, consultaVars>>

\* lines 238-241: a second autocommitted statement, then the 201.
IngestUpdate ==
    /\ ipc = "update"
    /\ invernadero' = TouchInvernadero(invernadero, iid, now)
    /\ ires' = Created
    /\ ipc' = "done"
    /\ UNCHANGED <<now, nextInvId, estado_control, usuario_invernadero, registro_sensores,
                   crearVars, ireq, iid, iStored, estadoVars, actualizarVars, consultaVars>>

\* lines 242-245: any of the three pool.query calls rejects.
IngestThrows ==
    /\ ipc \in {"lookup", "insert", "update"}
    /\ ires' = InternalError
    /\ ipc' = "done"
    /\ UNCHANGED <<dbVars, crearVars, ireq, iid, iStored, estadoVars, actualizarVars, consultaVars>>

Ingest(bodies) ==
    \/ \E body \in bodies : IngestStart(body)
    \/ IngestLookup
    \/ IngestInsert
    \/ IngestUpdate
    \/ IngestThrows

(***************************************************************************)
(* GET /api/control/estado/:token                                          *)
(***************************************************************************)
\* lines 323-327: !!column
Flags(row) ==
    [luces |-> row.luces_estado # 0, riego |-> row.riego_estado # 0,
     ventilacion |-> row.ventilacion_estado # 0]

\* SELECT ... FROM estado_control WHERE id_invernadero = ?
SelectEstado(rows, id) == {r \in rows : r.id_invernadero = id}

\* line 300: the route matches only a non-empty :token.
EstadoStart(token) ==
    /\ epc \in {"idle", "done"}
    /\ etoken' = token
    /\ eid' = 0
    /\ eres' = NoResponse
    /\ ebody' = NoFlags
    /\ epc' = "lookup"
    /\ UNCHANGED <<dbVars, crearVars, ingestVars, actualizarVars, consultaVars>>

\* lines 303-312
EstadoLookup ==
    /\ epc = "lookup"
    /\ LET found == SelectByToken(invernadero, etoken)
       IN IF found = {}
            THEN eres' = Unauthorized /\ epc' = "done" /\ UNCHANGED eid
            ELSE /\ \E id \in found : eid' = id
                 /\ epc' = "select"
                 /\ UNCHANGED eres
    /\ UNCHANGED <<dbVars, crearVars, ingestVars, etoken, ebody, actualizarVars, consultaVars>>

\* lines 314-327
EstadoSelect ==
    /\ epc = "select"
    /\ LET estado == SelectEstado(estado_control, eid)
       IN IF estado = {}
            THEN eres' = NotFound /\ UNCHANGED ebody
            ELSE /\ \E row \in estado : ebody' = Flags(row)
                 /\ eres' = Ok
    /\ epc' = "done"
    /\ UNCHANGED <<dbVars, crearVars, ingestVars, etoken, eid, actualizarVars, consultaVars>>

\* lines 328-331
EstadoThrows ==
    /\ epc \in {"lookup", "select"}
    /\ eres' = InternalError
    /\ epc' = "done"
    /\ UNCHANGED <<dbVars, crearVars, ingestVars, etoken, eid, ebody, actualizarVars, consultaVars>>

Estado ==
    \/ \E token \in Tokens : EstadoStart(token)
    \/ EstadoLookup
    \/ EstadoSelect
    \/ EstadoThrows

(***************************************************************************)
(* PUT /api/control/actualizar/:id_inv                                     *)
(***************************************************************************)
Columnas == {"luces_estado", "riego_estado", "ventilacion_estado"}

\* The names every object literal inherits from Object.prototype whose value
\* is a function.
Heredadas == {"constructor", "toString", "toLocaleString", "valueOf", "hasOwnProperty",
              "isPrototypeOf", "propertyIsEnumerable", "__defineGetter__",
              "__defineSetter__", "__lookupGetter__", "__lookupSetter__"}

\* The text a template literal gives for the inherited function of that name:
\* Object.prototype.constructor is the function Object.
FunctionText(name) ==
    "function " \o (IF name = "constructor" THEN "Object" ELSE name) \o "() { [native code] }"

\* lines 342-346: {luces: ..., riego: ..., ventilacion: ...}[actuador].  The
\* lookup of a name the literal does not define goes on to Object.prototype:
\* an inherited name gives a function, __proto__ gives Object.prototype itself
\* (both truthy, written as the text line 355 interpolates), any other name
\* gives undefined.
ActuadorCampo(actuador) ==
    CASE actuador = "luces" -> "luces_estado"
      [] actuador = "riego" -> "riego_estado"
      [] actuador = "ventilacion" -> "ventilacion_estado"
      [] actuador \in Heredadas -> FunctionText(actuador)
      [] actuador = "__proto__" -> "[object Object]"
      [] OTHER -> "undefined"

\* The value MySQL stores in the TINYINT flag for the bound parameter.
ValorEstado(estado) == IF estado = "true" THEN 1 ELSE 0

\* lines 353-357: UPDATE ESTADO_CONTROL SET <campo> = ?, ultima_actualizacion = NOW()
\* WHERE id_invernadero = ?
\* (faulty variant: the WHERE clause is missing)
SetFlagSinWhere(rows, id, campo, valor, t) ==
    {[r EXCEPT ![campo] = valor, !.ultima_actualizacion = t] : r \in rows}
\* (faulty variant: the statement writes the whole row, the other two flags
\* from a stale copy in which they are off)
SetFlagFilaCompleta(rows, id, campo, valor, t) ==
    {IF r.id_invernadero = id
       THEN [[r EXCEPT !.luces_estado = 0, !.riego_estado = 0, !.ventilacion_estado = 0,
                       !.ultima_actualizacion = t] EXCEPT ![campo] = valor]
       ELSE r : r \in rows}
\* (faulty variant: INSERT ... ON DUPLICATE KEY UPDATE)
SetFlagUpsert(rows, id, campo, valor, t) ==
    IF \E r \in rows : r.id_invernadero = id
      THEN {IF r.id_invernadero = id
              THEN [r EXCEPT ![campo] = valor, !.ultima_actualizacion = t]
              ELSE r : r \in rows}
      ELSE rows \cup {[[id_invernadero |-> id, luces_estado |-> 0, riego_estado |-> 0,
                        ventilacion_estado |-> 0, ultima_actualizacion |-> t]
                          EXCEPT ![campo] = valor]}
SetFlag(rows, id, campo, valor, t) ==
    {IF r.id_invernadero = id
       THEN [r EXCEPT ![campo] = valor, !.ultima_actualizacion = t]
       ELSE r : r \in rows}

\* line 338: !actuador || estado === undefined
ActualizarIncompleto(r) == r.actuador = "" \/ r.estado = "undefined"

\* lines 338-340: the request is turned down in the turn it arrives in.
ActualizarSinDatos(p, r) ==
    /\ apc[p] \in {"idle", "done"}
    /\ ActualizarIncompleto(r)
    /\ areq' = [areq EXCEPT ![p] = r]
    /\ ares' = [ares EXCEPT ![p] = BadRequest]
    /\ asql' = [asql EXCEPT ![p] = ""]
    /\ apc' = [apc EXCEPT ![p] = "done"]
    /\ UNCHANGED <<dbVars, crearVars, ingestVars, estadoVars, pbase, consultaVars>>

\* lines 348-350
ActualizarInvalido(p, r) ==
    /\ apc[p] \in {"idle", "done"}
    /\ ~ActualizarIncompleto(r)
    /\ ActuadorCampo(r.actuador) = "undefined"
    /\ areq' = [areq EXCEPT ![p] = r]
    /\ ares' = [ares EXCEPT ![p] = BadRequest]
    /\ asql' = [asql EXCEPT ![p] = ""]
    /\ apc' = [apc EXCEPT ![p] = "done"]
    /\ UNCHANGED <<dbVars, crearVars, ingestVars, estadoVars, pbase, consultaVars>>

\* lines 335-359 up to the await: the statement is built and sent, the handler
\* is suspended and nothing has been answered.
ActualizarEnvia(p, r) ==
    /\ apc[p] \in {"idle", "done"}
    /\ ~ActualizarIncompleto(r)
    /\ ActuadorCampo(r.actuador) # "undefined"
    /\ areq' = [areq EXCEPT ![p] = r]
    /\ ares' = [ares EXCEPT ![p] = NoResponse]
    /\ asql' = [asql EXCEPT ![p] = ActuadorCampo(r.actuador)]
    /\ apc' = [apc EXCEPT ![p] = "query"]
    /\ UNCHANGED <<dbVars, crearVars, ingestVars, estadoVars, pbase, consultaVars>>

\* The server runs the UPDATE of lines 353-357; its result is on the way to
\* the handler.
ActualizarOk(p) ==
    /\ apc[p] = "query"
    /\ asql[p] \in Columnas
    /\ estado_control' = SetFlag(estado_control, areq[p].id, asql[p],
                                 ValorEstado(areq[p].estado), now)
    /\ apc' = [apc EXCEPT ![p] = "ok"]
    /\ UNCHANGED <<now, nextInvId, invernadero, usuario_invernadero, registro_sensores,
                   crearVars, ingestVars, estadoVars, areq, ares, asql, pbase, consultaVars>>

\* A truthy actuadorCampo that is no column name: the text interpolated at
\* line 355 is not SQL and the server rejects the statement.
ActualizarSqlError(p) ==
    /\ apc[p] = "query"
    /\ asql[p] \notin Columnas
    /\ apc' = [apc EXCEPT ![p] = "error"]
    /\ UNCHANGED <<dbVars, crearVars, ingestVars, estadoVars, areq, ares, asql, pbase,
                   consultaVars>>

\* The storage layer fails (connection lost, timeout): the UPDATE is not run.
ActualizarThrows(p) ==
    /\ apc[p] = "query"
    /\ asql[p] \in Columnas
    /\ apc' = [apc EXCEPT ![p] = "error"]
    /\ UNCHANGED <<dbVars, crearVars, ingestVars, estadoVars, areq, ares, asql, pbase,
                   consultaVars>>

\* lines 359-365: the handler resumes with the result, 200 at line 361, or with
\* the rejection, 500 at line 364.
ActualizarResponde(p) ==
    /\ apc[p] \in {"ok", "error"}
    /\ ares' = [ares EXCEPT ![p] = IF apc[p] = "ok" THEN Ok ELSE InternalError]
    /\ apc' = [apc EXCEPT ![p] = "done"]
    /\ UNCHANGED <<dbVars, crearVars, ingestVars, estadoVars, areq, asql, pbase, consultaVars>>

\* A request arrives and runs up to its first return or await.
ActualizarInicia(p, requests) ==
    \E r \in requests :
        \/ ActualizarSinDatos(p, r)
        \/ ActualizarInvalido(p, r)
        \/ ActualizarEnvia(p, r)

\* The storage layer and the resumed handler.
ActualizarSigue(p) ==
    \/ ActualizarOk(p)
    \/ ActualizarSqlError(p)
    \/ ActualizarThrows(p)
    \/ ActualizarResponde(p)

Actualizar(p, requests) ==
    \/ ActualizarInicia(p, requests)
    \/ ActualizarSigue(p)

(***************************************************************************)
(* Rounds of NumPut concurrent actuator updates: every handler of a round  *)
(* runs one request.                                                       *)
(***************************************************************************)
\* The requests of the concurrent handlers: every update of device 1, and one
\* request for each way of being turned down.
PutRequests ==
    [id : {1}, actuador : {"luces", "riego", "ventilacion"}, estado : {"true", "false"}]
    \cup {[id |-> 1, actuador |-> "bomba", estado |-> "true"],
          [id |-> 1, actuador |-> "constructor", estado |-> "true"],
          [id |-> 1, actuador |-> "luces", estado |-> "undefined"]}

\* Every handler has finished: the next round of concurrent requests begins.
PutRonda ==
    /\ \A p \in PutProcs : apc[p] = "done"
    /\ apc' = [p \in PutProcs |-> "idle"]
    /\ areq' = [p \in PutProcs |-> NoPut]
    /\ ares' = [p \in PutProcs |-> NoResponse]
    /\ asql' = [p \in PutProcs |-> ""]
    /\ pbase' = estado_control
    /\ UNCHANGED <<dbVars, crearVars, ingestVars, estadoVars, consultaVars>>

\* Handler p within a round.
Put(p) ==
    \/ apc[p] = "idle" /\ ActualizarInicia(p, PutRequests)
    \/ ActualizarSigue(p)

(***************************************************************************)
(* The two reading queries: SELECT ... FROM registro_sensores               *)
(* WHERE id_invernadero = ? ORDER BY fecha_hora DESC LIMIT ...              *)
(***************************************************************************)
\* WHERE id_invernadero = ?: the positions of the device's rows in the table.
LecturasDe(regs, id) == {i \in DOMAIN regs : regs[i].id_invernadero = id}

\* The orders in which S can be listed, each element once.
Ordenes(S) ==
    {o \in [1..Cardinality(S) -> S] : \A i, j \in DOMAIN o : o[i] = o[j] => i = j}

\* ORDER BY fecha_hora DESC: every order of the device's rows in which
\* fecha_hora never increases.  Rows with the same fecha_hora come in whatever
\* order the server produces.
\* (faulty variant: ORDER BY fecha_hora ASC)
OrderByFechaAsc(regs, id) ==
    {o \in Ordenes(LecturasDe(regs, id)) :
        \A i, j \in DOMAIN o : i < j => regs[o[i]].fecha_hora <= regs[o[j]].fecha_hora}
OrderByFechaDesc(regs, id) ==
    {o \in Ordenes(LecturasDe(regs, id)) :
        \A i, j \in DOMAIN o : i < j => regs[o[i]].fecha_hora >= regs[o[j]].fecha_hora}

\* LIMIT n, for n >= 0: the first n rows, or all of them when there are fewer.
LimitRows(o, n) == SubSeq(o, 1, IF n < Len(o) THEN n ELSE Len(o))

\* The columns both queries select.
Lectura(row) ==
    [temp_ambiente |-> row.temp_ambiente, humedad_ambiente |-> row.humedad_ambiente,
     humedad_suelo |-> row.humedad_suelo, fecha_hora |-> row.fecha_hora]

(***************************************************************************)
(* GET /api/data/ultima/:id_inv                                            *)
(***************************************************************************)
\* lines 252-261 up to the await: the SELECT is sent, the handler is suspended.
UltimaStart(id) ==
    /\ upc \in {"idle", "done"}
    /\ uid' = id
    /\ ures' = NoResponse
    /\ ubody' = <<>>
    /\ upc' = "query"
    /\ UNCHANGED <<dbVars, crearVars, ingestVars, estadoVars, actualizarVars,
                   historicoVars, listadoVars>>

\* The server runs the SELECT of lines 254-260 on the rows stored at that
\* moment; the result is on the way to the handler.
UltimaSelect ==
    /\ upc = "query"
    /\ \E o \in OrderByFechaDesc(registro_sensores, uid) :
          ubody' = [i \in DOMAIN LimitRows(o, 1) |->
                      Lectura(registro_sensores[LimitRows(o, 1)[i]])]
    /\ upc' = "rows"
    /\ UNCHANGED <<dbVars, crearVars, ingestVars, estadoVars, actualizarVars,
                   uid, ures, historicoVars, listadoVars>>

\* The storage layer fails: pool.query rejects.
UltimaThrows ==
    /\ upc = "query"
    /\ upc' = "error"
    /\ UNCHANGED <<dbVars, crearVars, ingestVars, estadoVars, actualizarVars,
                   uid, ures, ubody, historicoVars, listadoVars>>

\* lines 261-270: the handler resumes; no row gives 404, a row gives 200 with
\* registro[0], a rejection gives 500.
UltimaResponde ==
    /\ upc \in {"rows", "error"}
    /\ ures' = IF upc = "error" THEN InternalError
               ELSE IF Len(ubody) = 0 THEN NotFound ELSE Ok
    /\ upc' = "done"
    /\ UNCHANGED <<dbVars, crearVars, ingestVars, estadoVars, actualizarVars,
                   uid, ubody, historicoVars, listadoVars>>

Ultima(ids) ==
    \/ \E id \in ids : UltimaStart(id)
    \/ UltimaSelect
    \/ UltimaThrows
    \/ UltimaResponde

(***************************************************************************)
(* GET /api/data/historico/:id_inv                                         *)
(***************************************************************************)
Digitos == {"0", "1", "2", "3", "4", "5", "6", "7", "8", "9"}
DigitVal(c) ==
    CASE c = "0" -> 0 [] c = "1" -> 1 [] c = "2" -> 2 [] c = "3" -> 3 [] c = "4" -> 4
      [] c = "5" -> 5 [] c = "6" -> 6 [] c = "7" -> 7 [] c = "8" -> 8 [] c = "9" -> 9

\* The value of the decimal digits of s from position i up to the first
\* character that is no digit.
RECURSIVE LeerDigitos(_, _, _)
LeerDigitos(s, i, acc) ==
    IF i > Len(s) \/ s[i] \notin Digitos
      THEN acc
      ELSE LeerDigitos(s, i + 1, acc * 10 + DigitVal(s[i]))

\* parseInt(s): an optional sign, then the leading decimal digits; NaN when no
\* digit follows.  (Leading blanks and the 0x prefix are not among the inputs.)
ParseInt(s) ==
    LET signo == Len(s) > 0 /\ s[1] \in {"-", "+"}
        desde == IF signo THEN 2 ELSE 1
    IN IF desde > Len(s) \/ s[desde] \notin Digitos
         THEN [nan |-> TRUE, n |-> 0]
         ELSE [nan |-> FALSE,
               n |-> IF signo /\ s[1] = "-" THEN 0 - LeerDigitos(s, desde, 0)
                                            ELSE LeerDigitos(s, desde, 0)]

\* line 275: req.query.limit ? parseInt(req.query.limit) : 50
DefaultLimit == 50
Limit(q) == IF q = <<>> THEN [nan |-> FALSE, n |-> DefaultLimit] ELSE ParseInt(q)

\* lines 274-284 up to the await: the limit is computed, the SELECT is sent
\* with it and the handler is suspended.
HistoricoStart(id, q) ==
    /\ hpc \in {"idle", "done"}
    /\ hid' = id
    /\ hlimit' = q
    /\ hsent' = TRUE
    /\ hres' = NoResponse
    /\ hbody' = <<>>
    /\ hpc' = "query"
    /\ UNCHANGED <<dbVars, crearVars, ingestVars, estadoVars, actualizarVars,
                   ultimaVars, listadoVars>>

\* The server accepts the statement (LIMIT takes a non-negative integer) and
\* runs it on the rows stored at that moment; the result is on the way to the
\* handler.
HistoricoSelect ==
    /\ hpc = "query"
    /\ ~Limit(hlimit).nan /\ Limit(hlimit).n >= 0
    /\ \E o \in OrderByFechaDesc(registro_sensores, hid) :
          hbody' = [i \in DOMAIN LimitRows(o, Limit(hlimit).n) |->
                      Lectura(registro_sensores[LimitRows(o, Limit(hlimit).n)[i]])]
    /\ hpc' = "rows"
    /\ UNCHANGED <<dbVars, crearVars, ingestVars, estadoVars, actualizarVars,
                   hid, hlimit, hres, hsent, ultimaVars, listadoVars>>

\* A limit that is NaN or negative: the statement sent carries LIMIT NaN or
\* LIMIT -1 and the server rejects it.
HistoricoSqlError ==
    /\ hpc = "query"
    /\ Limit(hlimit).nan \/ Limit(hlimit).n < 0
    /\ hpc' = "error"
    /\ UNCHANGED <<dbVars, crearVars, ingestVars, estadoVars, actualizarVars,
                   hid, hlimit, hres, hbody, hsent, ultimaVars, listadoVars>>

\* The storage layer fails: pool.query rejects.
HistoricoThrows ==
    /\ hpc = "query"
    /\ ~Limit(hlimit).nan /\ Limit(hlimit).n >= 0
    /\ hpc' = "error"
    /\ UNCHANGED <<dbVars, crearVars, ingestVars, estadoVars, actualizarVars,
                   hid, hlimit, hres, hbody, hsent, ultimaVars, listadoVars>>

\* lines 284-293: the handler resumes; no row gives 404, rows give 200 with
\* them, a rejection gives 500.
HistoricoResponde ==
    /\ hpc \in {"rows", "error"}
    /\ hres' = IF hpc = "error" THEN InternalError
               ELSE IF Len(hbody) = 0 THEN NotFound ELSE Ok
    /\ hpc' = "done"
    /\ UNCHANGED <<dbVars, crearVars, ingestVars, estadoVars, actualizarVars,
                   hid, hlimit, hbody, hsent, ultimaVars, listadoVars>>

Historico(ids, limites) ==
    \/ \E id \in ids, q \in limites : HistoricoStart(id, q)
    \/ HistoricoSelect
    \/ HistoricoSqlError
    \/ HistoricoThrows
    \/ HistoricoResponde

(***************************************************************************)
(* GET /api/invernaderos/user/:userId                                      *)
(***************************************************************************)
\* req.params.userId: the two users that provision, and one that never does.
Usuarios == UserIds \cup {9}

\* lines 184-186: FROM invernadero I JOIN usuario_invernadero UI
\* ON I.id_invernadero = UI.id_invernadero WHERE UI.id_usuario = ?
\* One result row for every matching pair of rows.
JoinPorUsuario(inv, own, user) ==
    {par \in inv \X own :
        par[1].id_invernadero = par[2].id_invernadero /\ par[2].id_usuario = user}

\* line 187: ORDER BY I.id_invernadero ASC
\* (faulty variant: ORDER BY I.id_invernadero DESC)
OrderByIdDesc(pares) ==
    {o \in Ordenes(pares) :
        \A i, j \in DOMAIN o : i < j => o[i][1].id_invernadero >= o[j][1].id_invernadero}
OrderByIdAsc(pares) ==
    {o \in Ordenes(pares) :
        \A i, j \in DOMAIN o : i < j => o[i][1].id_invernadero <= o[j][1].id_invernadero}

\* lines 180-183: the four columns selected, all of invernadero.
Zona(par) ==
    [id_invernadero |-> par[1].id_invernadero, nombre_ubicacion |-> par[1].nombre_ubicacion,
     token_dispositivo |-> par[1].token_dispositivo, ultima_conexion |-> par[1].ultima_conexion]

\* lines 170-189 up to the await: the :userId of a matched route is never
\* empty, so the check of line 171 passes; the SELECT is sent and the handler
\* is suspended.
ListarStart(user) ==
    /\ lpc \in {"idle", "done"}
    /\ luser' = user
    /\ lres' = NoResponse
    /\ lbody' = <<>>
    /\ lpc' = "query"
    /\ UNCHANGED <<dbVars, crearVars, ingestVars, estadoVars, actualizarVars,
                   ultimaVars, historicoVars>>

\* The server runs the SELECT of lines 178-188 on the rows committed at that
\* moment; the result is on the way to the handler.
ListarSelect ==
    /\ lpc = "query"
    /\ \E o \in OrderByIdAsc(JoinPorUsuario(invernadero, usuario_invernadero, luser)) :
          lbody' = [i \in DOMAIN o |-> Zona(o[i])]
    /\ lpc' = "rows"
    /\ UNCHANGED <<dbVars, crearVars, ingestVars, estadoVars, actualizarVars,
                   luser, lres, ultimaVars, historicoVars>>

\* The storage layer fails: pool.query rejects.
ListarThrows ==
    /\ lpc = "query"
    /\ lpc' = "error"
    /\ UNCHANGED <<dbVars, crearVars, ingestVars, estadoVars, actualizarVars,
                   luser, lres, lbody, ultimaVars, historicoVars>>

\* lines 189-198: the handler resumes; the rows are sent with 200, also when
\* there are none; a rejection gives 500.
ListarResponde ==
    /\ lpc \in {"rows", "error"}
    /\ lres' = IF lpc = "error" THEN InternalError ELSE Ok
    /\ lpc' = "done"
    /\ UNCHANGED <<dbVars, crearVars, ingestVars, estadoVars, actualizarVars,
                   luser, lbody, ultimaVars, historicoVars>>

Listar(users) ==
    \/ \E user \in users : ListarStart(user)
    \/ ListarSelect
    \/ ListarThrows
    \/ ListarResponde

(***************************************************************************)
(* SpecCrear: NumCrear provisioning requests running concurrently.         *)
(***************************************************************************)
NextCrear ==
    \E p \in CrearProcs : Crear(p, CrearBodies({7}))

SpecCrear == Init /\ [][NextCrear]_vars

(***************************************************************************)
(* SpecActuadores: provisioning and actuator updates, the requests of each *)
(* route arriving one after the other.                                     *)
(***************************************************************************)
NextActuadores ==
    \/ Crear(1, CrearBodies({7}))
    \/ Actualizar(1, ActualizarRequests({"luces", "riego", "ventilacion"}))

SpecActuadores == Init /\ [][NextActuadores]_vars

(***************************************************************************)
(* SpecControl: provisioning, the control-state fetch and the actuator     *)
(* update.                                                                 *)
(***************************************************************************)
NextControl ==
    \/ Crear(1, CrearBodies({7}))
    \/ Estado
    \/ Actualizar(1, ActualizarBasicos)

SpecControl == Init /\ [][NextControl]_vars

(***************************************************************************)
(* SpecTelemetry: provisioning and telemetry ingest under a running clock. *)
(***************************************************************************)
NextTelemetry ==
    \/ Tick
    \/ Crear(1, CrearBodies({7}))
    \/ Ingest(IngestBodies({24, 25}))

SpecTelemetry == Init /\ [][NextTelemetry]_vars

(***************************************************************************)
(* SpecDevice: provisioning and the two device-facing routes, which both   *)
(* authenticate the device by its token.                                   *)
(***************************************************************************)
NextDevice ==
    \/ Crear(1, CrearBodies({7}))
    \/ Ingest(IngestBodies({24}))
    \/ Estado

SpecDevice == Init /\ [][NextDevice]_vars

(***************************************************************************)
(* Spec: every route that writes, so every way a committed row can appear  *)
(* or change.                                                              *)
(***************************************************************************)
Next ==
    \/ Crear(1, CrearBodies({7}))
    \/ Ingest(IngestCompletos({24}))
    \/ Actualizar(1, ActualizarBasicos)

Spec == Init /\ [][Next]_vars

(***************************************************************************)
(* SpecHistorico: telemetry ingest under a running clock and the history   *)
(* query, for two provisioned devices.                                     *)
(***************************************************************************)
\* The state after user 7 has provisioned device 1 with token "ABC" and device 2
\* with token "XYZ" on the empty database, both requests answered 201.
InitProvisionado ==
    /\ now = 1
    /\ nextInvId = 3
    /\ invernadero = {FilaInvernadero(1, "Greenhouse A", "ABC", 1),
                      FilaInvernadero(2, "Greenhouse A", "XYZ", 1)}
    /\ estado_control = {FilaEstadoControl(1), FilaEstadoControl(2)}
    /\ usuario_invernadero = {FilaUsuarioInvernadero(7, 1), FilaUsuarioInvernadero(7, 2)}
    /\ registro_sensores = <<>>
    /\ cpc = [p \in CrearProcs |-> IF p = 1 THEN "done" ELSE "idle"]
    /\ creq = [p \in CrearProcs |->
                IF p = 1 THEN [userId |-> 7, nombreUbicacion |-> "Greenhouse A",
                               tokenDispositivo |-> "XYZ"]
                         ELSE NoReq]
    /\ connection = [p \in CrearProcs |-> FALSE]
    /\ txInv = [p \in CrearProcs |-> {}]
    /\ txCtl = [p \in CrearProcs |-> {}]
    /\ txOwn = [p \in CrearProcs |-> {}]
    /\ newInvId = [p \in CrearProcs |-> IF p = 1 THEN 2 ELSE 0]
    /\ cres = [p \in CrearProcs |-> IF p = 1 THEN Created ELSE NoResponse]
    /\ fault = [p \in CrearProcs |-> FALSE]
    /\ dupEntry = [p \in CrearProcs |-> FALSE]
    /\ dupAtStart = [p \in CrearProcs |-> FALSE]
    /\ failedIds = {}
    /\ ipc = "idle" /\ ireq = NoIngest /\ iid = 0 /\ ires = NoResponse /\ iStored = FALSE
    /\ epc = "idle" /\ etoken = "" /\ eid = 0 /\ eres = NoResponse /\ ebody = NoFlags
    /\ apc = [p \in PutProcs |-> "idle"]
    /\ areq = [p \in PutProcs |-> NoPut]
    /\ ares = [p \in PutProcs |-> NoResponse]
    /\ asql = [p \in PutProcs |-> ""]
    /\ pbase = {FilaEstadoControl(1), FilaEstadoControl(2)}
    /\ upc = "idle" /\ uid = 0 /\ ures = NoResponse /\ ubody = <<>>
    /\ hpc = "idle" /\ hid = 0 /\ hlimit = <<>> /\ hres = NoResponse /\ hbody = <<>>
    /\ hsent = FALSE
    /\ lpc = "idle" /\ luser = 0 /\ lres = NoResponse /\ lbody = <<>>

NextHistorico ==
    \/ Tick
    \/ Ingest(IngestCompletos({24}))
    \/ Historico(InvIds, {<<>>, <<"1">>, <<"2">>, <<"a">>})

SpecHistorico == InitProvisionado /\ [][NextHistorico]_vars

(***************************************************************************)
(* SpecLecturas: telemetry ingest under a running clock and the            *)
(* latest-reading query, for two provisioned devices.                      *)
(***************************************************************************)
NextLecturas ==
    \/ Tick
    \/ Ingest(IngestCompletos({24, 25}))
    \/ Ultima(InvIds)

SpecLecturas == InitProvisionado /\ [][NextLecturas]_vars

(***************************************************************************)
(* SpecLimites: the history query with every kind of limit, for two         *)
(* provisioned devices that send telemetry.                                *)
(***************************************************************************)
NextLimites ==
    \/ Ingest(IngestCompletos({24}))
    \/ Historico(InvIds, Limites)

SpecLimites == InitProvisionado /\ [][NextLimites]_vars

(***************************************************************************)
(* SpecConcurrente: rounds of NumPut concurrent actuator updates of a       *)
(* provisioned device.                                                     *)
(***************************************************************************)
NextConcurrente ==
    \/ PutRonda
    \/ \E p \in PutProcs : Put(p)

SpecConcurrente == InitProvisionado /\ [][NextConcurrente]_vars

(***************************************************************************)
(* SpecListado: provisioning by two users and the device listing.          *)
(***************************************************************************)
NextListado ==
    \/ Crear(1, CrearBodies(UserIds))
    \/ Listar(Usuarios)

SpecListado == Init /\ [][NextListado]_vars

(***************************************************************************)
(* Properties.                                                             *)
(***************************************************************************)
IdsIn(rows) == {r.id_invernadero : r \in rows}

\* A provisioning request whose body passed the validation of line 115.
CrearValido(p) == cpc[p] # "idle" /\ ~DatosIncompletos(creq[p])

\* The handler of request p has reached its catch block.
CrearFallido(p) == fault[p] \/ dupEntry[p]

\* C1 (atomicity of provisioning): no committed invernadero, estado_control or
\* usuario_invernadero row carries the id of a provisioning attempt that
\* failed, neither while the failed handler unwinds nor at any later time; and
\* the rows of a transaction still open are in no committed table.
C1_Atomicity ==
    /\ \A id \in failedIds :
          id \notin IdsIn(invernadero) \cup IdsIn(estado_control) \cup IdsIn(usuario_invernadero)
    /\ \A p \in CrearProcs :
          /\ CrearFallido(p) /\ newInvId[p] # 0 =>
                newInvId[p] \notin IdsIn(invernadero) \cup IdsIn(estado_control)
                                   \cup IdsIn(usuario_invernadero)
          /\ txInv[p] \cap invernadero = {}
          /\ txCtl[p] \cap estado_control = {}
          /\ txOwn[p] \cap usuario_invernadero = {}

\* C1 witness: an attempt failed after its three inserts and was answered 500,
\* while another attempt committed its device.
C1_Witness ==
    \E p, q \in CrearProcs :
        /\ cpc[p] = "done" /\ cres[p] = InternalError /\ fault[p]
        /\ newInvId[p] \in failedIds
        /\ cpc[q] = "done" /\ cres[q] = Created
        /\ newInvId[q] \in IdsIn(invernadero)

\* C2 (token uniqueness): in every committed state at most one invernadero row
\* carries a given token.
C2_TokenUniqueness ==
    \A r1, r2 \in invernadero :
        r1.token_dispositivo = r2.token_dispositivo => r1 = r2

\* C2 witness: two requests with the same token both passed the lookup of
\* lines 123-128; one committed, the insert of the other was rejected.
C2_Witness ==
    \E p, q \in CrearProcs :
        /\ p # q
        /\ creq[p].tokenDispositivo = creq[q].tokenDispositivo
        /\ cpc[p] = "done" /\ cres[p] = Created
        /\ cpc[q] = "done" /\ dupEntry[q]
        /\ Cardinality(invernadero) = 1

\* C3 (concurrent duplicate provisioning), as claimed: of the requests that
\* use the same token, one is answered 201 and every other one that met no
\* storage failure is answered 409, also when it had passed the lookup and its
\* insert was rejected by the uniqueness constraint.
C3_DuplicateIsConflict ==
    \A p, q \in CrearProcs :
        ( /\ p # q
          /\ cpc[p] = "done" /\ cres[p] = Created
          /\ cpc[q] = "done" /\ CrearValido(q) /\ ~fault[q]
          /\ creq[q].tokenDispositivo = creq[p].tokenDispositivo )
        => cres[q] = Conflict

\* C4 (sequential duplicate provisioning): a valid request whose token was
\* already committed when it arrived never changes a table, and unless a
\* storage call fails it ends with the answer 409.
C4_SequentialDuplicate ==
    [][\A p \in CrearProcs :
          (dupAtStart[p] /\ cpc'[p] # cpc[p] /\ cpc[p] \notin {"idle", "done"}) =>
              /\ tables' = tables
              /\ (cpc'[p] = "done" /\ ~fault'[p] => cres'[p] = Conflict)]_vars

\* C4 witness: such a request has been answered 409 while the device that
\* owns the token is committed.
C4_Witness ==
    \E p \in CrearProcs :
        /\ dupAtStart[p] /\ cpc[p] = "done" /\ cres[p] = Conflict
        /\ TokenConocido(creq[p].tokenDispositivo)

\* The estado_control row of device id has never been written by an UPDATE.
NuncaActualizado(id) ==
    \A r \in SelectEstado(estado_control, id) : r.ultima_actualizacion = 0

\* C5 (co-creation): once the commit of a provisioning request has returned
\* (the 201 is about to be sent or has been sent) with device id D, exactly one
\* estado_control row for D exists, and as long as no actuator update has
\* written that row its three flags are 0 and a control-state fetch that
\* resolved D answers 200 with {false, false, false}.
C5_CoCreation ==
    /\ \A p \in CrearProcs :
          (cpc[p] = "respond201" \/ (cpc[p] = "done" /\ cres[p] = Created)) =>
              /\ Cardinality(SelectEstado(estado_control, newInvId[p])) = 1
              /\ NuncaActualizado(newInvId[p]) =>
                    \A r \in SelectEstado(estado_control, newInvId[p]) :
                        r.luces_estado = 0 /\ r.riego_estado = 0 /\ r.ventilacion_estado = 0
    /\ (epc = "done" /\ eid # 0 /\ eres # InternalError /\ NuncaActualizado(eid)) =>
          eres = Ok /\ ebody = [luces |-> FALSE, riego |-> FALSE, ventilacion |-> FALSE]

\* C5 witness: the device of a request answered 201 was fetched by its token
\* before any actuator update and the fetch answered the three flags.
C5_Witness ==
    /\ cpc[1] = "done" /\ cres[1] = Created
    /\ epc = "done" /\ eres = Ok /\ eid = newInvId[1]
    /\ etoken = creq[1].tokenDispositivo
    /\ NuncaActualizado(eid)
    /\ ebody = [luces |-> FALSE, riego |-> FALSE, ventilacion |-> FALSE]

\* C6 (ControlState/Device correspondence): in every committed state the ids of
\* the estado_control rows are exactly the ids of the invernadero rows, with one
\* row per id in each table.
C6_ControlStateIffDevice ==
    /\ IdsIn(estado_control) = IdsIn(invernadero)
    /\ Cardinality(estado_control) = Cardinality(IdsIn(estado_control))
    /\ Cardinality(invernadero) = Cardinality(IdsIn(invernadero))

\* C6 witness: a device is committed, a provisioning attempt has failed, an
\* ingest has refreshed a device and an actuator update has been accepted.
C6_Witness ==
    /\ invernadero # {}
    /\ failedIds # {}
    /\ ires = Created
    /\ \E p \in PutProcs : apc[p] = "done" /\ ares[p] = Ok
    /\ \E r \in estado_control : r.ultima_actualizacion # 0

\* A request arrives at handler p of the actuator update.
Llega(p) ==
    /\ apc[p] \in {"idle", "done"}
    /\ apc'[p] # "idle"
    /\ <<apc[p], areq[p], ares[p], asql[p]>>' # <<apc[p], areq[p], ares[p], asql[p]>>

\* C7 (isolation of actuators): the UPDATE of an update of actuator a of
\* device id leaves invernadero, usuario_invernadero and registro_sensores as
\* they are, adds and removes no estado_control row, leaves the rows of the
\* other devices as they are, and in the row of device id changes only the flag
\* of a (to the value sent) and ultima_actualizacion (to NOW()); the update is
\* then answered 200, and no other step of its handler changes a table.
C7_ActuatorIsolation ==
    [][\A p \in PutProcs :
          /\ (apc[p] = "query" /\ apc'[p] = "ok") =>
                /\ invernadero' = invernadero
                /\ usuario_invernadero' = usuario_invernadero
                /\ registro_sensores' = registro_sensores
                /\ IdsIn(estado_control') = IdsIn(estado_control)
                /\ Cardinality(estado_control') = Cardinality(estado_control)
                /\ \A r \in estado_control :
                      IF r.id_invernadero # areq[p].id
                        THEN r \in estado_control'
                        ELSE \E r2 \in estado_control' :
                                /\ r2.id_invernadero = areq[p].id
                                /\ r2[ActuadorCampo(areq[p].actuador)] = ValorEstado(areq[p].estado)
                                /\ r2.ultima_actualizacion = now
                                /\ \A c \in Columnas \ {ActuadorCampo(areq[p].actuador)} :
                                      r2[c] = r[c]
          /\ (apc[p] = "ok" /\ apc'[p] # "ok") =>
                apc'[p] = "done" /\ ares'[p] = Ok
          /\ (apc'[p] # apc[p] /\ ~(apc[p] = "query" /\ apc'[p] = "ok")) =>
                tables' = tables]_vars

\* C7 witness: two devices exist; an update answered 200 has set exactly the
\* riego flag of one, the other has never been updated.
C7_Witness ==
    /\ \E p \in PutProcs :
          /\ apc[p] = "done" /\ ares[p] = Ok
          /\ areq[p].actuador = "riego" /\ areq[p].estado = "true"
    /\ \E r1, r2 \in estado_control :
          /\ r1.id_invernadero # r2.id_invernadero
          /\ r1.luces_estado = 0 /\ r1.riego_estado = 1 /\ r1.ventilacion_estado = 0
          /\ r1.ultima_actualizacion = now
          /\ r2.ultima_actualizacion = 0

\* C8 (invalid actuator rejection), as claimed: every request whose actuator
\* name is not luces, riego or ventilacion is answered 400 in the turn it
\* arrives in, without a statement being sent to the storage layer.
C8_InvalidActuatorRejected ==
    [][\A p \in PutProcs :
          (Llega(p) /\ areq'[p].actuador \notin {"luces", "riego", "ventilacion"}) =>
              /\ apc'[p] = "done"
              /\ ares'[p] = BadRequest
              /\ asql'[p] = ""
              /\ dbVars' = dbVars]_vars

\* C9 (telemetry ingest is all-or-nothing), as claimed: when the handler of an
\* ingest for a known token has finished, its reading is stored exactly when
\* the device's ultima_conexion was refreshed (the handler answers 201 right
\* after the refresh and in no other case), and a request answered 500 has
\* stored no reading.
C9_IngestAllOrNothing ==
    (ipc = "done" /\ iid # 0) =>
        /\ iStored <=> ires = Created
        /\ ires = InternalError => ~iStored

\* C10 (unknown token is rejected without effect): when the token lookup of an
\* ingest or of a control-state fetch returns, then either a committed device
\* carries the token and the handler goes on with that device's id, or no
\* device carries it and the handler answers 401, ends, and leaves every table
\* and the clock as they are; an ingest answered 401 has stored no reading.
C10_UnknownTokenRejected ==
    [][/\ (ipc = "lookup" /\ ipc' # "lookup" /\ ires' # InternalError) =>
             IF TokenConocido(ireq.token)
               THEN /\ ipc' = "insert"
                    /\ \E r \in invernadero :
                          r.token_dispositivo = ireq.token /\ r.id_invernadero = iid'
               ELSE /\ ipc' = "done" /\ ires' = Unauthorized
                    /\ iid' = 0 /\ ~iStored'
                    /\ dbVars' = dbVars
       /\ (epc = "lookup" /\ epc' # "lookup" /\ eres' # InternalError) =>
             IF TokenConocido(etoken)
               THEN /\ epc' = "select"
                    /\ \E r \in invernadero :
                          r.token_dispositivo = etoken /\ r.id_invernadero = eid'
               ELSE /\ epc' = "done" /\ eres' = Unauthorized
                    /\ eid' = 0
                    /\ dbVars' = dbVars]_vars

\* C10 witness: with a device committed under another token, an ingest and a
\* fetch with an unknown token have both been answered 401.
C10_Witness ==
    /\ ipc = "done" /\ ires = Unauthorized /\ ~TokenConocido(ireq.token)
    /\ epc = "done" /\ eres = Unauthorized /\ ~TokenConocido(etoken)
    /\ invernadero # {}
    /\ registro_sensores # <<>>

\* The row of device id that was inserted last.
UltimaInsertada(regs, id) ==
    regs[CHOOSE i \in LecturasDe(regs, id) : \A j \in LecturasDe(regs, id) : j <= i]

\* C11 (latest reflects the last ingest), as claimed: when the server runs the
\* latest-reading query of device D and the last ingest for D was answered 201
\* (no ingest is under way), the query gives the row that ingest stored, with
\* the three sensor values it sent, also when an earlier row of D carries the
\* same capture time; the query gives no row exactly when D has no rows; and
\* the handler answers 200 with the row, or 404 when there is none.
C11_LatestIsLastIngest ==
    [][/\ (upc = "query" /\ upc' = "rows") =>
             /\ (ipc = "done" /\ ires = Created /\ iid = uid) =>
                   /\ Len(ubody') = 1
                   /\ ubody'[1] = Lectura(UltimaInsertada(registro_sensores, uid))
                   /\ ubody'[1].temp_ambiente = Number(ireq.tempAmbiente)
                   /\ ubody'[1].humedad_ambiente = Number(ireq.humAmbiente)
                   /\ ubody'[1].humedad_suelo = Number(ireq.humedadSuelo)
             /\ (Len(ubody') = 0 <=> LecturasDe(registro_sensores, uid) = {})
       /\ (upc = "rows" /\ upc' = "done") =>
             /\ ubody' = ubody
             /\ ures' = IF Len(ubody) = 0 THEN NotFound ELSE Ok]_vars

\* The limits the claim is about: a positive decimal numeral, or none given.
LimitePositivo(q) ==
    \/ q = <<>>
    \/ /\ \A i \in DOMAIN q : q[i] \in Digitos
       /\ ParseInt(q).n > 0

\* body lists k rows of device id, each row once, capture time never
\* increasing, and no row left out is more recent than a row listed.
EsPrefijoReciente(body, regs, id, k) ==
    /\ Len(body) = k
    /\ \E f \in [1..k -> LecturasDe(regs, id)] :
          /\ \A i, j \in 1..k : f[i] = f[j] => i = j
          /\ \A i \in 1..k : body[i] = Lectura(regs[f[i]])
          /\ \A i, j \in 1..k : i < j => body[i].fecha_hora >= body[j].fecha_hora
          /\ \A r \in LecturasDe(regs, id) \ {f[i] : i \in 1..k} :
                \A i \in 1..k : regs[r].fecha_hora <= body[i].fecha_hora

\* C12 (history is a recency prefix): when the server runs a history query of
\* device D with a positive limit L, it gives the min(L, rows of D) most
\* recent rows of D, capture time never increasing (no row when D has none);
\* with no limit given it gives what L = 50 gives; and the handler answers 200
\* with those rows, or 404 when there is none.
C12_HistoryIsRecencyPrefix ==
    [][/\ (hpc = "query" /\ hpc' = "rows" /\ LimitePositivo(hlimit)) =>
             LET n == Cardinality(LecturasDe(registro_sensores, hid))
                 L == IF hlimit = <<>> THEN 50 ELSE ParseInt(hlimit).n
             IN EsPrefijoReciente(hbody', registro_sensores, hid, IF L < n THEN L ELSE n)
       /\ (hpc = "rows" /\ hpc' = "done") =>
             /\ hbody' = hbody
             /\ hres' = IF Len(hbody) = 0 THEN NotFound ELSE Ok]_vars

\* C12 witness: a device has two rows with different capture times and a
\* query with limit 1 was answered with the more recent one alone.
C12_Witness ==
    /\ hpc = "done" /\ hres = Ok /\ hlimit = <<"1">>
    /\ Len(hbody) = 1
    /\ \E i, j \in LecturasDe(registro_sensores, hid) :
          /\ registro_sensores[i].fecha_hora < registro_sensores[j].fecha_hora
          /\ hbody[1] = Lectura(registro_sensores[j])

\* A step keeps every stored row, unchanged and in place, and adds at most one
\* row, which only the INSERT of an ingest does (the row carries the device
\* the token resolved to, NOW() and the three values sent).
SoloCrece ==
    /\ Len(registro_sensores') >= Len(registro_sensores)
    /\ Len(registro_sensores') <= Len(registro_sensores) + 1
    /\ \A i \in DOMAIN registro_sensores : registro_sensores'[i] = registro_sensores[i]
    /\ registro_sensores' # registro_sensores =>
          /\ ipc = "insert" /\ ipc' = "update"
          /\ registro_sensores'[Len(registro_sensores')] = FilaRegistro(iid, now, ireq)

\* C13 (readings are append-only), as claimed: no step removes or changes a
\* stored row, a row is added only by the INSERT of a telemetry ingest, and
\* an ingest that has added a row ends as a success (201).
C13_AppendOnly ==
    [][/\ SoloCrece
       /\ (ipc # "done" /\ ipc' = "done" /\ iStored') => ires' = Created]_vars

\* C14 (history limit validation), as claimed: a history request whose limit
\* is given and is not a positive integer is answered 400 in the turn it
\* arrives in and no query is sent to the storage layer.
C14_LimitValidated ==
    [][(hpc \in {"idle", "done"} /\ hpc' \notin {"idle", hpc}
          /\ hlimit' # <<>> /\ ~LimitePositivo(hlimit')) =>
              hpc' = "done" /\ hres' = BadRequest /\ ~hsent']_vars

\* Request p of the current round has been answered 200.
PutHecho(p) == apc[p] = "done" /\ ares[p] = Ok

\* C15 (concurrent updates to different flags do not conflict): in every
\* interleaving of the concurrent updates of a round, a valid update whose
\* UPDATE the storage layer runs is answered 200; once it is answered, the flag
\* it names holds the value it sent as long as no other request of the round
\* names the same flag of the same device; and a flag that no request of the
\* round whose UPDATE has run names holds the value it had when the round
\* began.
C15_DifferentFlagsNoConflict ==
    /\ [][\A p \in PutProcs :
            /\ (apc[p] = "query" /\ asql[p] \in Columnas /\ apc'[p] # "query") =>
                  apc'[p] \in {"ok", "error"}
            /\ (apc[p] = "ok" /\ apc'[p] # "ok") =>
                  apc'[p] = "done" /\ ares'[p] = Ok]_vars
    /\ [](\A p \in PutProcs :
            ( /\ PutHecho(p)
              /\ \A q \in PutProcs \ {p} :
                    (apc[q] # "idle" /\ areq[q].id = areq[p].id)
                        => areq[q].actuador # areq[p].actuador )
               => \A r \in SelectEstado(estado_control, areq[p].id) :
                      r[ActuadorCampo(areq[p].actuador)] = ValorEstado(areq[p].estado))
    /\ [](\A r \in estado_control, c \in Columnas :
            (\A p \in PutProcs :
                ~((apc[p] = "ok" \/ PutHecho(p)) /\ areq[p].id = r.id_invernadero
                   /\ ActuadorCampo(areq[p].actuador) = c))
              => \E b \in SelectEstado(pbase, r.id_invernadero) : r[c] = b[c])

\* C15 witness: two requests of a round have set luces to true and riego to
\* false on a device whose riego and ventilacion flags were on when the round
\* began; all three flags hold what the claim says.
C15_Witness ==
    \E p, q \in PutProcs :
        /\ PutHecho(p) /\ areq[p] = [id |-> 1, actuador |-> "luces", estado |-> "true"]
        /\ PutHecho(q) /\ areq[q] = [id |-> 1, actuador |-> "riego", estado |-> "false"]
        /\ \A x \in PutProcs \ {p, q} : apc[x] = "idle"
        /\ \E b \in SelectEstado(pbase, 1) :
              b.luces_estado = 0 /\ b.riego_estado = 1 /\ b.ventilacion_estado = 1
        /\ \E r \in SelectEstado(estado_control, 1) :
              r.luces_estado = 1 /\ r.riego_estado = 0 /\ r.ventilacion_estado = 1

\* C16 (every provisioning failure is reported), as claimed: a request that
\* passed the validation and whose handler has finished was answered, a failed
\* one with 409 or 500, whatever storage step failed (the rollback of the catch
\* block included); and when 409 or 500 was sent the transaction had been
\* rolled back.
C16_FailureReported ==
    \A p \in CrearProcs :
        (cpc[p] = "done" /\ CrearValido(p)) =>
            /\ cres[p] \in {Created, Conflict, InternalError}
            /\ CrearFallido(p) => cres[p] \in {Conflict, InternalError}
            /\ cres[p] \in {Conflict, InternalError} =>
                  txInv[p] = {} /\ txCtl[p] = {} /\ txOwn[p] = {}

\* The number of pool connections the provisioning handlers hold.
Held == Cardinality({p \in CrearProcs : connection[p]})

\* C18 (connection release): a handler holds a connection only between its
\* getConnection and its end: it takes one only at line 120, gives it back in
\* the step that ends the handler (201, 409, 500, or the rollback of the catch
\* block throwing) and at no other time, a request turned down by the
\* validation holds none, and no connection is held when no request is in
\* progress.
C18_ConnectionReleased ==
    /\ [](\A p \in CrearProcs :
            /\ cpc[p] \in {"idle", "done"} => ~connection[p]
            /\ DatosIncompletos(creq[p]) => ~connection[p])
    /\ []((\A p \in CrearProcs : cpc[p] \in {"idle", "done"}) => Held = 0)
    /\ [][\A p \in CrearProcs :
            /\ (~connection[p] /\ connection'[p]) =>
                  cpc[p] = "getConnection" /\ cpc'[p] = "beginTransaction"
            /\ (connection[p] /\ ~connection'[p]) =>
                  cpc[p] \notin {"idle", "done"} /\ cpc'[p] = "done"
            /\ (connection[p] /\ cpc[p] # "done" /\ cpc'[p] = "done") => ~connection'[p]]_vars

\* C18 witness: one handler ended with the rollback of its catch block
\* throwing, another was answered 409, a third kind of request was turned down
\* by the validation or answered 201 before; no connection is held.
C18_Witness ==
    /\ Held = 0
    /\ \E p, q \in CrearProcs :
          /\ cpc[p] = "done" /\ CrearValido(p) /\ cres[p] = NoResponse
          /\ cpc[q] = "done" /\ cres[q] = Conflict
    /\ invernadero # {}

\* The devices for which an ownership row of the user exists.
DispositivosDe(user) ==
    {ui.id_invernadero : ui \in {x \in usuario_invernadero : x.id_usuario = user}}

\* C17 (device listing): when the server runs the listing query of user U it
\* gives committed invernadero rows, in strictly ascending id order (so each
\* device once), of exactly the devices for which an ownership row of U exists
\* (none: no row); when a provisioning request of U has been answered 201, its
\* device is among them; and the handler answers 200 with those rows, the
\* empty list included.
C17_DeviceListing ==
    [][/\ (lpc = "query" /\ lpc' = "rows") =>
             /\ \A i \in DOMAIN lbody' : lbody'[i] \in invernadero
             /\ \A i, j \in DOMAIN lbody' :
                   i < j => lbody'[i].id_invernadero < lbody'[j].id_invernadero
             /\ {lbody'[i].id_invernadero : i \in DOMAIN lbody'} = DispositivosDe(luser)
             /\ DispositivosDe(luser) = {} => lbody' = <<>>
             /\ \A p \in CrearProcs :
                   (cpc[p] = "done" /\ cres[p] = Created /\ creq[p].userId = luser) =>
                       \E i \in DOMAIN lbody' : lbody'[i].id_invernadero = newInvId[p]
       /\ (lpc = "rows" /\ lpc' = "done") =>
             lres' = Ok /\ lbody' = lbody]_vars

\* C17 witness: user 7 owns two devices, the second one provisioned by the
\* request just answered 201, and the listing answered shows both, lower id
\* first.
C17_Witness ==
    /\ lpc = "done" /\ lres = Ok /\ luser = 7
    /\ Len(lbody) = 2
    /\ lbody[1].id_invernadero < lbody[2].id_invernadero
    /\ cpc[1] = "done" /\ cres[1] = Created /\ creq[1].userId = 7
    /\ newInvId[1] = lbody[2].id_invernadero
    /\ DispositivosDe(7) = {lbody[1].id_invernadero, lbody[2].id_invernadero}

\* C19 (total order of readings), as claimed: no two rows of registro_sensores
\* of the same device carry the same fecha_hora.
C19_TotalOrder ==
    \A i, j \in DOMAIN registro_sensores :
        (i # j /\ registro_sensores[i].id_invernadero = registro_sensores[j].id_invernadero)
            => registro_sensores[i].fecha_hora # registro_sensores[j].fecha_hora

\* C20 (actuator update on an unknown device): a request with a valid actuator
\* name and a defined estado always has its UPDATE sent, whether or not the
\* device exists; when the storage layer runs the UPDATE for an id that has no
\* estado_control row, every table stays as it was (no estado_control,
\* invernadero or usuario_invernadero row is created and none is changed); and
\* the request is then answered 200.
C20_UnknownDeviceUpdate ==
    [][\A p \in PutProcs :
          /\ ( /\ Llega(p)
               /\ areq'[p].actuador \in {"luces", "riego", "ventilacion"}
               /\ areq'[p].estado # "undefined" ) =>
                apc'[p] = "query" /\ asql'[p] \in Columnas /\ tables' = tables
          /\ ( /\ apc[p] = "query" /\ apc'[p] = "ok"
               /\ SelectEstado(estado_control, areq[p].id) = {} ) =>
                tables' = tables
          /\ (apc[p] = "ok" /\ apc'[p] # "ok") =>
                apc'[p] = "done" /\ ares'[p] = Ok /\ tables' = tables]_vars

\* C20 witness: an update was answered 200 although no estado_control row
\* exists (none has ever existed: no route deletes), and no table has a row.
C20_Witness ==
    /\ \E p \in PutProcs : apc[p] = "done" /\ ares[p] = Ok /\ asql[p] \in Columnas
    /\ estado_control = {}
    /\ invernadero = {}
    /\ usuario_invernadero = {}

=============================================================================
